---------------------------- MODULE Spec2Model ----------------------------
(***************************************************************************)
(* A model of package grade (src/grade.go): Config.validate, Run and       *)
(* makeFields.  Run reads a benchmark report, turns every parsed           *)
(* benchmark into an InfluxDB point and writes all points as one batch.    *)
(*                                                                         *)
(* Three specifications share the variables:                               *)
(*   SpecValidate  one call of Config.validate on an arbitrary Config;     *)
(*   SpecFields    one call of makeFields on an arbitrary benchmark;       *)
(*   Spec          one call of Run, stepped through its statements.        *)
(***************************************************************************)
EXTENDS Integers, Sequences, FiniteSets, TLC

VARIABLES
    cfg,        \* the Config handed to validate / Run
    report,     \* the text behind the io.Reader, as a sequence of lines
    pc,         \* the statement the call is at
    err,        \* the error value the call returned (Nil: success)
    benchset,   \* Run's local benchset: package -> sequence of benchmarks
    todo,       \* keys of benchset the range loop has not visited yet
    pkg,        \* the range loop's current key
    idx,        \* position of the inner loop in benchset[pkg]
    bp,         \* Run's local bp, the batch under construction
    writes,     \* what the write sink received: one entry per Write call
    parseCalls, \* number of calls of parse.ParseMultipleBenchmarks
    rec,        \* makeFields' argument b
    rev,        \* makeFields' argument revision
    fld         \* makeFields' return value

vars == <<cfg, report, pc, err, benchset, todo, pkg, idx, bp, writes,
          parseCalls, rec, rev, fld>>

-----------------------------------------------------------------------------
(* Error values.  An error carries its text, a sequence of tokens; the     *)
(* token "\n" is the line separator.                                       *)

Nil == [kind |-> "nil", text |-> <<>>]

\* errors.New(text)
ErrorsNew(text) == [kind |-> "error", text |-> text]

\* strings.Join(elems, sep): the elements with sep between neighbours.
RECURSIVE Join(_, _)
Join(elems, sep) ==
    IF Len(elems) = 0 THEN <<>>
    ELSE IF Len(elems) = 1 THEN <<elems[1]>>
    ELSE <<elems[1], sep>> \o Join(Tail(elems), sep)

-----------------------------------------------------------------------------
(* time.Time: whole seconds since the Unix epoch (floored) and the         *)
(* nanoseconds within that second, as Go keeps them.  Go's zero Time is    *)
(* 0001-01-01T00:00:00Z, whose Unix() is -62135596800; that number is      *)
(* outside TLC's integers, so the least integer used here stands for it.    *)

ZeroTimeUnix == -2147483647

ZeroTime == [sec |-> ZeroTimeUnix, nsec |-> 0]

\* Time.Unix(): the seconds, the sub-second part dropped.
Unix(t) == t.sec

-----------------------------------------------------------------------------
(* Config.validate                                                         *)

\* A validate that returns at the first violated field.
validateFailFast(c) ==
    IF c.Database = "" THEN ErrorsNew(<<"Database cannot be empty">>)
    ELSE IF c.GoVersion = "" THEN ErrorsNew(<<"Go version cannot be empty">>)
    ELSE IF Unix(c.Timestamp) <= 0
         THEN ErrorsNew(<<"Timestamp must be greater than zero">>)
    ELSE IF c.Revision = "" THEN ErrorsNew(<<"Revision cannot be empty">>)
    ELSE IF c.HardwareID = "" THEN ErrorsNew(<<"Hardware ID cannot be empty">>)
    ELSE Nil

\* A validate that only rejects the zero Time.
validateIsZero(c) ==
    LET m1 == IF c.Database = "" THEN <<"Database cannot be empty">> ELSE <<>>
        m2 == m1 \o (IF c.GoVersion = ""
                     THEN <<"Go version cannot be empty">> ELSE <<>>)
        m3 == m2 \o (IF c.Timestamp = ZeroTime
                     THEN <<"Timestamp must be greater than zero">> ELSE <<>>)
        m4 == m3 \o (IF c.Revision = ""
                     THEN <<"Revision cannot be empty">> ELSE <<>>)
        msg == m4 \o (IF c.HardwareID = ""
                      THEN <<"Hardware ID cannot be empty">> ELSE <<>>)
    IN  IF Len(msg) > 0 THEN ErrorsNew(Join(msg, "\n")) ELSE Nil

validate(c) ==
    LET m1 == IF c.Database = "" THEN <<"Database cannot be empty">> ELSE <<>>
        m2 == m1 \o (IF c.GoVersion = ""
                     THEN <<"Go version cannot be empty">> ELSE <<>>)
        m3 == m2 \o (IF Unix(c.Timestamp) <= 0
                     THEN <<"Timestamp must be greater than zero">> ELSE <<>>)
        m4 == m3 \o (IF c.Revision = ""
                     THEN <<"Revision cannot be empty">> ELSE <<>>)
        msg == m4 \o (IF c.HardwareID = ""
                      THEN <<"Hardware ID cannot be empty">> ELSE <<>>)
    IN  IF Len(msg) > 0 THEN ErrorsNew(Join(msg, "\n")) ELSE Nil

-----------------------------------------------------------------------------
(* 64-bit integers.  A uint64 is four 16-bit limbs, least significant      *)
(* first.  An int64 is the integer it denotes, as a sign and a magnitude   *)
(* of four limbs.                                                          *)

Base == 2^16

\* w + c modulo 2^64, for a carry c in 0..1
RECURSIVE AddCarry(_, _)
AddCarry(w, c) ==
    IF Len(w) = 0 THEN <<>>
    ELSE LET s == w[1] + c
         IN  <<s % Base>> \o AddCarry(Tail(w), s \div Base)

\* every bit of w flipped
Complement(w) == [i \in 1..Len(w) |-> Base - 1 - w[i]]

\* A conversion that keeps the unsigned value, whatever its top bit.
Int64KeepValue(u) == [neg |-> FALSE, mag |-> u]

\* int64(u) for a uint64 u: the same 64 bits read as two's complement.  With
\* the top bit set they denote -(2^64 - u), and 2^64 - u is ~u + 1.
Int64(u) ==
    IF u[4] >= Base \div 2
    THEN [neg |-> TRUE,  mag |-> AddCarry(Complement(u), 1)]
    ELSE [neg |-> FALSE, mag |-> u]

-----------------------------------------------------------------------------
(* parse.Benchmark and the bits of its Measured field.                     *)

NsPerOp == 1
MBPerS == 2
AllocedBytesPerOp == 4
AllocsPerOp == 8

\* a & b on non-negative integers
RECURSIVE BitAnd(_, _)
BitAnd(a, b) ==
    IF a = 0 \/ b = 0 THEN 0
    ELSE (a % 2) * (b % 2) + 2 * BitAnd(a \div 2, b \div 2)

\* m[k] = v on a map
MapSet(m, k, v) ==
    [x \in (DOMAIN m) \cup {k} |-> IF x = k THEN v ELSE m[x]]

\* make(map[string]interface{}, 6)
EmptyMap == [x \in {} |-> 0]

-----------------------------------------------------------------------------
(* makeFields                                                              *)

\* A makeFields that emits every metric, measured or not.
makeFieldsNoMask(b, revision) ==
    LET f0 == MapSet(MapSet(EmptyMap, "revision", revision), "n", b.N)
        f1 == MapSet(f0, "ns_per_op", b.NsPerOp)
        f2 == MapSet(f1, "mb_per_s", b.MBPerS)
        f3 == MapSet(f2, "alloced_bytes_per_op", Int64(b.AllocedBytesPerOp))
    IN  MapSet(f3, "allocs_per_op", Int64(b.AllocsPerOp))

makeFields(b, revision) ==
    LET f0 == MapSet(MapSet(EmptyMap, "revision", revision), "n", b.N)
        f1 == IF BitAnd(b.Measured, NsPerOp) # 0
              THEN MapSet(f0, "ns_per_op", b.NsPerOp) ELSE f0
        f2 == IF BitAnd(b.Measured, MBPerS) # 0
              THEN MapSet(f1, "mb_per_s", b.MBPerS) ELSE f1
        f3 == IF BitAnd(b.Measured, AllocedBytesPerOp) # 0
              THEN MapSet(f2, "alloced_bytes_per_op",
                          Int64(b.AllocedBytesPerOp))
              ELSE f2
    IN  IF BitAnd(b.Measured, AllocsPerOp) # 0
        THEN MapSet(f3, "allocs_per_op", Int64(b.AllocsPerOp))
        ELSE f3

-----------------------------------------------------------------------------
(* parse.ParseMultipleBenchmarks.  A report is a sequence of lines; a line *)
(* is a package-section header, a benchmark line (already split into the   *)
(* fields of parse.Benchmark), a malformed benchmark line, or other text.  *)

\* the zero parse.Benchmark
NoBench ==
    [Name |-> "", N |-> 0, NsPerOp |-> 0, MBPerS |-> 0,
     AllocedBytesPerOp |-> <<0, 0, 0, 0>>, AllocsPerOp |-> <<0, 0, 0, 0>>,
     Measured |-> 0, NumCPU |-> 0]

HeaderLine(p) == [kind |-> "header", pkg |-> p, bench |-> NoBench]
BenchLine(b) == [kind |-> "bench", pkg |-> "", bench |-> b]
MalformedLine == [kind |-> "malformed", pkg |-> "", bench |-> NoBench]
OtherLine == [kind |-> "other", pkg |-> "", bench |-> NoBench]

\* the error for the malformed line at position i
ParseError(i) == ErrorsNew(<<"malformed benchmark line", ToString(i)>>)

\* m[k] = append(m[k], b)
MapAppend(m, k, b) ==
    MapSet(m, k, IF k \in DOMAIN m THEN Append(m[k], b) ELSE <<b>>)

\* The lines from position i on, with cur the package of the last header
\* seen and acc the benchmarks gathered so far.
RECURSIVE ParseFrom(_, _, _, _)
ParseFrom(lines, i, cur, acc) ==
    IF i > Len(lines) THEN [benchset |-> acc, err |-> Nil]
    ELSE LET l == lines[i]
         IN  CASE l.kind = "malformed" ->
                      [benchset |-> EmptyMap, err |-> ParseError(i)]
               [] l.kind = "header" -> ParseFrom(lines, i + 1, l.pkg, acc)
               [] l.kind = "bench" ->
                      ParseFrom(lines, i + 1, cur, MapAppend(acc, cur, l.bench))
               [] OTHER -> ParseFrom(lines, i + 1, cur, acc)

ParseMultipleBenchmarks(r) == ParseFrom(r, 1, "", EmptyMap)

-----------------------------------------------------------------------------
(* strconv.Itoa, client.Point, client.BatchPoints                          *)

Digit == <<"0", "1", "2", "3", "4", "5", "6", "7", "8", "9">>

RECURSIVE Itoa(_)
Itoa(n) ==
    IF n < 0 THEN "-" \o Itoa(-n)
    ELSE IF n < 10 THEN Digit[n + 1]
    ELSE Itoa(n \div 10) \o Digit[(n % 10) + 1]

\* A point whose pkg tag is the benchmark's name.
PointWrongPkg(p, b, revision) ==
    [Measurement |-> "benchmarks",
     Tags |-> [pkg |-> b.Name, ncpu |-> Itoa(b.NumCPU), name |-> b.Name],
     Fields |-> makeFields(b, revision)]

\* the client.Point literal of Run's inner loop
Point(p, b, revision) ==
    [Measurement |-> "benchmarks",
     Tags |-> [pkg |-> p, ncpu |-> Itoa(b.NumCPU), name |-> b.Name],
     Fields |-> makeFields(b, revision)]

\* the zero client.BatchPoints
NoBatch ==
    [Database |-> "", Tags |-> [goversion |-> "", hwid |-> ""],
     Time |-> ZeroTime, Precision |-> "", Points |-> <<>>]

\* the client.BatchPoints literal of Run
BatchPoints(c) ==
    [Database |-> c.Database,
     Tags |-> [goversion |-> c.GoVersion, hwid |-> c.HardwareID],
     Time |-> c.Timestamp, Precision |-> "s", Points |-> <<>>]

\* what cl.Write may return as its error
SinkErrors == {ErrorsNew(<<"write: timeout">>), ErrorsNew(<<"write: 400">>)}
SinkOutcomes == {Nil} \cup SinkErrors

-----------------------------------------------------------------------------
(* The inputs.                                                             *)

\* the longest report
MaxLines == 4

Times ==
    {ZeroTime,
     [sec |-> -1, nsec |-> 0], [sec |-> -1, nsec |-> 999999999],
     [sec |-> 0, nsec |-> 0], [sec |-> 0, nsec |-> 1],
     [sec |-> 0, nsec |-> 999999999],
     [sec |-> 1, nsec |-> 0], [sec |-> 1, nsec |-> 500000000],
     [sec |-> 1478131200, nsec |-> 0]}

\* the Configs validate is called on
ValidateConfigs ==
    [Database : {"", " ", "db"}, GoVersion : {"", " ", "go1.7"},
     Timestamp : Times, Revision : {"", " ", "abc123"},
     HardwareID : {"", " ", "hw1"}]

\* the Configs Run is called on: every combination of violated fields
RunConfigs ==
    [Database : {"", "db"}, GoVersion : {"", "go1.7"},
     Timestamp : {ZeroTime, [sec |-> 1478131200, nsec |-> 0]},
     Revision : {"", "abc123"}, HardwareID : {"", "hw1"}]

\* the zero Config
NoConfig ==
    [Database |-> "", GoVersion |-> "", Timestamp |-> ZeroTime,
     Revision |-> "", HardwareID |-> ""]

\* uint64 values around 2^63 and 2^64; a float64 is written in tenths
U64Samples ==
    {<<0, 0, 0, 0>>, <<16, 0, 0, 0>>, <<0, 1, 0, 40000>>,
     <<65535, 65535, 65535, 32767>>, <<0, 0, 0, 32768>>,
     <<1, 0, 0, 32768>>, <<65535, 65535, 65535, 65535>>}

\* the benchmarks makeFields is called on
FieldBenchmarks ==
    [Name : {"Foo"}, N : {0, 100000}, NsPerOp : {0, 1230}, MBPerS : {0, 456},
     AllocedBytesPerOp : U64Samples, AllocsPerOp : U64Samples,
     Measured : 0..15, NumCPU : {4}]

\* BenchmarkFoo-4  100000  123 ns/op  45.6 MB/s
BenchFoo ==
    [Name |-> "Foo", N |-> 100000, NsPerOp |-> 1230, MBPerS |-> 456,
     AllocedBytesPerOp |-> <<0, 0, 0, 0>>, AllocsPerOp |-> <<0, 0, 0, 0>>,
     Measured |-> 3, NumCPU |-> 4]

\* BenchmarkBar-16  20  16 B/op  2 allocs/op
BenchBar ==
    [Name |-> "Bar", N |-> 20, NsPerOp |-> 0, MBPerS |-> 0,
     AllocedBytesPerOp |-> <<16, 0, 0, 0>>, AllocsPerOp |-> <<2, 0, 0, 0>>,
     Measured |-> 12, NumCPU |-> 16]

ReportLines ==
    {HeaderLine("p"), HeaderLine("q"), BenchLine(BenchFoo),
     BenchLine(BenchBar), MalformedLine, OtherLine}

Reports == UNION {[1..n -> ReportLines] : n \in 0..MaxLines}

-----------------------------------------------------------------------------
(* SpecValidate: one call of Config.validate.                              *)

InitValidate ==
    /\ cfg \in ValidateConfigs
    /\ pc = "start"
    /\ err = Nil
    /\ report = <<>> /\ benchset = EmptyMap /\ todo = {} /\ pkg = ""
    /\ idx = 0 /\ bp = NoBatch /\ writes = <<>> /\ parseCalls = 0
    /\ rec = NoBench /\ rev = "" /\ fld = EmptyMap

ValidateCall ==
    /\ pc = "start"
    /\ err' = validate(cfg)
    /\ pc' = "returned"
    /\ UNCHANGED <<cfg, report, benchset, todo, pkg, idx, bp, writes,
                   parseCalls, rec, rev, fld>>

NextValidate == ValidateCall

SpecValidate == InitValidate /\ [][NextValidate]_vars

-----------------------------------------------------------------------------
(* SpecFields: one call of makeFields.                                     *)

InitFields ==
    /\ rec \in FieldBenchmarks
    /\ rev \in {"", "abc123"}
    /\ fld = EmptyMap
    /\ pc = "start"
    /\ cfg = NoConfig /\ err = Nil
    /\ report = <<>> /\ benchset = EmptyMap /\ todo = {} /\ pkg = ""
    /\ idx = 0 /\ bp = NoBatch /\ writes = <<>> /\ parseCalls = 0

MakeFieldsCall ==
    /\ pc = "start"
    /\ fld' = makeFields(rec, rev)
    /\ pc' = "returned"
    /\ UNCHANGED <<cfg, report, err, benchset, todo, pkg, idx, bp, writes,
                   parseCalls, rec, rev>>

NextFields == MakeFieldsCall

SpecFields == InitFields /\ [][NextFields]_vars

-----------------------------------------------------------------------------
(* Spec: one call of Run(r, cl, cfg).                                      *)

Init ==
    /\ cfg \in RunConfigs
    /\ report \in Reports
    /\ pc = "start"
    /\ err = Nil
    /\ benchset = EmptyMap /\ todo = {} /\ pkg = "" /\ idx = 0
    /\ bp = NoBatch /\ writes = <<>> /\ parseCalls = 0
    /\ rec = NoBench /\ rev = "" /\ fld = EmptyMap

\* A Run that goes on to parse whatever validate returned.
RunValidateIgnored ==
    /\ pc = "start"
    /\ pc' = "parse"
    /\ UNCHANGED <<cfg, report, err, benchset, todo, pkg, idx, bp, writes,
                   parseCalls, rec, rev, fld>>

\* if err := cfg.validate(); err != nil { return err }
RunValidate ==
    /\ pc = "start"
    /\ LET e == validate(cfg)
       IN  IF e # Nil
           THEN err' = e /\ pc' = "done"
           ELSE err' = err /\ pc' = "parse"
    /\ UNCHANGED <<cfg, report, benchset, todo, pkg, idx, bp, writes,
                   parseCalls, rec, rev, fld>>

\* A Run that goes on to build and write the batch whatever the parser
\* returned.
RunParseKeepPartial ==
    /\ pc = "parse"
    /\ parseCalls' = parseCalls + 1
    /\ LET r == ParseMultipleBenchmarks(report)
       IN  /\ benchset' = r.benchset
           /\ todo' = DOMAIN r.benchset
           /\ bp' = BatchPoints(cfg)
           /\ err' = r.err
           /\ pc' = "range"
    /\ UNCHANGED <<cfg, report, pkg, idx, writes, rec, rev, fld>>

\* benchset, err := parse.ParseMultipleBenchmarks(r)
\* if err != nil { return err }
\* bp := client.BatchPoints{...}
RunParse ==
    /\ pc = "parse"
    /\ parseCalls' = parseCalls + 1
    /\ LET r == ParseMultipleBenchmarks(report)
       IN  IF r.err # Nil
           THEN /\ err' = r.err
                /\ pc' = "done"
                /\ UNCHANGED <<benchset, todo, bp>>
           ELSE /\ benchset' = r.benchset
                /\ todo' = DOMAIN r.benchset
                /\ bp' = BatchPoints(cfg)
                /\ err' = err
                /\ pc' = "range"
    /\ UNCHANGED <<cfg, report, pkg, idx, writes, rec, rev, fld>>

\* for pkg, bs := range benchset: the next key.  Go leaves the iteration
\* order of a map unspecified, so any key not yet visited may come next.
RunRange ==
    /\ pc = "range"
    /\ \E p \in todo :
          /\ pkg' = p
          /\ todo' = todo \ {p}
    /\ idx' = 1
    /\ pc' = "inner"
    /\ UNCHANGED <<cfg, report, err, benchset, bp, writes, parseCalls,
                   rec, rev, fld>>

\* An inner loop that prepends.
RunAppendInFront ==
    /\ pc = "inner"
    /\ idx <= Len(benchset[pkg])
    /\ bp' = [bp EXCEPT !.Points =
                 <<Point(pkg, benchset[pkg][idx], cfg.Revision)>> \o @]
    /\ idx' = idx + 1
    /\ UNCHANGED <<cfg, report, pc, err, benchset, todo, pkg, writes,
                   parseCalls, rec, rev, fld>>

\* for _, b := range bs { p := client.Point{...}; bp.Points = append(...) }
RunAppend ==
    /\ pc = "inner"
    /\ idx <= Len(benchset[pkg])
    /\ bp' = [bp EXCEPT !.Points =
                 Append(@, Point(pkg, benchset[pkg][idx], cfg.Revision))]
    /\ idx' = idx + 1
    /\ UNCHANGED <<cfg, report, pc, err, benchset, todo, pkg, writes,
                   parseCalls, rec, rev, fld>>

\* the inner loop is through with bs
RunInnerDone ==
    /\ pc = "inner"
    /\ idx > Len(benchset[pkg])
    /\ pc' = "range"
    /\ UNCHANGED <<cfg, report, err, benchset, todo, pkg, idx, bp, writes,
                   parseCalls, rec, rev, fld>>

\* A Run that drops the sink's error.
RunWriteSwallow ==
    /\ pc = "range"
    /\ todo = {}
    /\ \E out \in SinkOutcomes :
          /\ writes' = Append(writes, [batch |-> bp, result |-> out])
          /\ err' = Nil
    /\ pc' = "done"
    /\ UNCHANGED <<cfg, report, benchset, todo, pkg, idx, bp, parseCalls,
                   rec, rev, fld>>

\* _, err = cl.Write(bp); return err
RunWrite ==
    /\ pc = "range"
    /\ todo = {}
    /\ \E out \in SinkOutcomes :
          /\ writes' = Append(writes, [batch |-> bp, result |-> out])
          /\ err' = out
    /\ pc' = "done"
    /\ UNCHANGED <<cfg, report, benchset, todo, pkg, idx, bp, parseCalls,
                   rec, rev, fld>>

Next ==
    \/ RunValidate
    \/ RunParse
    \/ RunRange
    \/ RunAppend
    \/ RunInnerDone
    \/ RunWrite

Spec == Init /\ [][Next]_vars

-----------------------------------------------------------------------------
(* What the properties below are stated with.                              *)

\* the lines of an error text: its tokens, split at "\n"
RECURSIVE LinesOf(_)
LinesOf(s) ==
    IF Len(s) = 0 THEN << <<>> >>
    ELSE IF Head(s) = "\n" THEN << <<>> >> \o LinesOf(Tail(s))
    ELSE LET r == LinesOf(Tail(s))
         IN  << <<Head(s)>> \o r[1] >> \o Tail(r)

TokensOf(s) == {s[i] : i \in DOMAIN s}

\* the fields of a Config, in the order validate is to report them
FieldOrder == <<"Database", "GoVersion", "Timestamp", "Revision", "HardwareID">>

\* A string field is violated when empty; the timestamp when its Unix
\* seconds are zero or less, which is how the zero Time is told.
FieldViolated(c, name) ==
    CASE name = "Database" -> c.Database = ""
      [] name = "GoVersion" -> c.GoVersion = ""
      [] name = "Timestamp" -> c.Timestamp.sec <= 0
      [] name = "Revision" -> c.Revision = ""
      [] name = "HardwareID" -> c.HardwareID = ""

FieldMessage(name) ==
    CASE name = "Database" -> "Database cannot be empty"
      [] name = "GoVersion" -> "Go version cannot be empty"
      [] name = "Timestamp" -> "Timestamp must be greater than zero"
      [] name = "Revision" -> "Revision cannot be empty"
      [] name = "HardwareID" -> "Hardware ID cannot be empty"

\* one line per violated field of c, in the fixed order
ViolationLines(c) ==
    LET Bad(name) == FieldViolated(c, name)
        bad == SelectSeq(FieldOrder, Bad)
    IN  [i \in 1..Len(bad) |-> <<FieldMessage(bad[i])>>]

AnyViolated(c) == \E i \in 1..Len(FieldOrder) : FieldViolated(c, FieldOrder[i])

\* err is the aggregated validation error of c
IsValidationError(e, c) == e.kind = "error" /\ LinesOf(e.text) = ViolationLines(c)

-----------------------------------------------------------------------------
\* C1: validate does not fail fast.  For every combination of violated
\* fields it returns nil when none is violated, and otherwise one error
\* whose text has exactly one line per violated field and no other line, in
\* the order database, Go version, timestamp, revision, hardware id.
C1_ValidateAggregates ==
    pc = "returned" =>
        IF AnyViolated(cfg) THEN IsValidationError(err, cfg) ELSE err = Nil

\* C1 witness: all five fields violated, five lines returned in order.
C1_Witness ==
    /\ pc = "returned"
    /\ cfg.Database = "" /\ cfg.GoVersion = "" /\ cfg.Timestamp = ZeroTime
    /\ cfg.Revision = "" /\ cfg.HardwareID = ""
    /\ LinesOf(err.text) =
          << <<"Database cannot be empty">>, <<"Go version cannot be empty">>,
             <<"Timestamp must be greater than zero">>,
             <<"Revision cannot be empty">>, <<"Hardware ID cannot be empty">> >>

\* C9: validate reports the timestamp exactly when its Unix seconds are zero
\* or less (the zero Time, any time before the epoch, and the epoch second
\* with any sub-second part), and reports a string field exactly when it is
\* the empty string (a whitespace-only string passes).
C9_ValidateRules ==
    pc = "returned" =>
        /\ ("Timestamp must be greater than zero" \in TokensOf(err.text))
              <=> ~(cfg.Timestamp.sec >= 1)
        /\ ("Database cannot be empty" \in TokensOf(err.text))
              <=> cfg.Database = ""
        /\ ("Go version cannot be empty" \in TokensOf(err.text))
              <=> cfg.GoVersion = ""
        /\ ("Revision cannot be empty" \in TokensOf(err.text))
              <=> cfg.Revision = ""
        /\ ("Hardware ID cannot be empty" \in TokensOf(err.text))
              <=> cfg.HardwareID = ""

\* C9 witness: the epoch second with a sub-second part is rejected while
\* whitespace-only strings are accepted.
C9_Witness ==
    /\ pc = "returned"
    /\ cfg.Timestamp = [sec |-> 0, nsec |-> 999999999]
    /\ cfg.Database = " " /\ cfg.GoVersion = " "
    /\ cfg.Revision = " " /\ cfg.HardwareID = " "
    /\ err = ErrorsNew(<<"Timestamp must be greater than zero">>)

-----------------------------------------------------------------------------
\* whether a mask holds the bit of a metric, flag being that bit's value
HasBit(mask, flag) == (mask \div flag) % 2 = 1

\* the keys makeFields is to return for a mask
WantedKeys(mask) ==
    {"revision", "n"}
        \cup (IF HasBit(mask, NsPerOp) THEN {"ns_per_op"} ELSE {})
        \cup (IF HasBit(mask, MBPerS) THEN {"mb_per_s"} ELSE {})
        \cup (IF HasBit(mask, AllocedBytesPerOp) THEN {"alloced_bytes_per_op"} ELSE {})
        \cup (IF HasBit(mask, AllocsPerOp) THEN {"allocs_per_op"} ELSE {})

\* C5: for every benchmark and each of the 16 masks, makeFields returns
\* revision and n always, each metric exactly when its bit is set, and
\* nothing else: 2 entries for mask 0, 6 for mask 15; a metric whose bit is
\* clear is absent whatever value the benchmark stores for it.
C5_FieldsFollowMask ==
    pc = "returned" =>
        /\ DOMAIN fld = WantedKeys(rec.Measured)
        /\ fld["revision"] = rev
        /\ fld["n"] = rec.N
        /\ HasBit(rec.Measured, NsPerOp) => fld["ns_per_op"] = rec.NsPerOp
        /\ HasBit(rec.Measured, MBPerS) => fld["mb_per_s"] = rec.MBPerS
        /\ rec.Measured = 0 => Cardinality(DOMAIN fld) = 2
        /\ rec.Measured = 15 => Cardinality(DOMAIN fld) = 6

\* C5 witness: mask 0 with non-zero metrics stored yields the two fields.
C5_Witness ==
    /\ pc = "returned"
    /\ rec.Measured = 0
    /\ rec.NsPerOp # 0 /\ rec.MBPerS # 0
    /\ rec.AllocedBytesPerOp # <<0, 0, 0, 0>>
    /\ rec.AllocsPerOp # <<0, 0, 0, 0>>
    /\ DOMAIN fld = {"revision", "n"}

\* a + b on limbs: the four low limbs and the carry out of the top one
RECURSIVE SumFrom(_, _, _, _)
SumFrom(a, b, i, carry) ==
    IF i > Len(a) THEN <<carry>>
    ELSE LET t == a[i] + b[i] + carry
         IN  <<t % 65536>> \o SumFrom(a, b, i + 1, t \div 65536)

\* a + b = 2^64
SumsToTwoPow64(a, b) == SumFrom(a, b, 1, 0) = <<0, 0, 0, 0, 1>>

\* a < 2^63
BelowTwoPow63(a) == a[4] < 32768

\* v is the int64 that u, a uint64, is to convert to
IsReinterpreted(v, u) ==
    IF BelowTwoPow63(u)
    THEN v = [neg |-> FALSE, mag |-> u]
    ELSE v.neg /\ SumsToTwoPow64(v.mag, u)

\* C10: when their bits are set, alloced_bytes_per_op and allocs_per_op are
\* the benchmark's uint64 values read as int64: the same value below 2^63,
\* the value minus 2^64 (negative) from 2^63 on.
C10_AllocsReinterpreted ==
    pc = "returned" =>
        /\ HasBit(rec.Measured, AllocedBytesPerOp) =>
              IsReinterpreted(fld["alloced_bytes_per_op"], rec.AllocedBytesPerOp)
        /\ HasBit(rec.Measured, AllocsPerOp) =>
              IsReinterpreted(fld["allocs_per_op"], rec.AllocsPerOp)

\* C10 witness: 2^64-1 bytes per op is emitted as -1, 2^63 allocations per
\* op as -2^63.
C10_Witness ==
    /\ pc = "returned"
    /\ rec.Measured = 15
    /\ rec.AllocedBytesPerOp = <<65535, 65535, 65535, 65535>>
    /\ fld["alloced_bytes_per_op"] = [neg |-> TRUE, mag |-> <<1, 0, 0, 0>>]
    /\ rec.AllocsPerOp = <<0, 0, 0, 32768>>
    /\ fld["allocs_per_op"] = [neg |-> TRUE, mag |-> <<0, 0, 0, 32768>>]

-----------------------------------------------------------------------------
(* Run                                                                     *)

\* the number of benchmarks of a package -> benchmarks mapping
RECURSIVE TotalRecords(_)
TotalRecords(m) ==
    IF DOMAIN m = {} THEN 0
    ELSE LET p == CHOOSE q \in DOMAIN m : TRUE
         IN  Len(m[p]) + TotalRecords([q \in (DOMAIN m) \ {p} |-> m[q]])

\* C2: with a Config that violates a rule, Run returns the aggregated
\* validation error and calls neither the parser nor the write sink,
\* whatever the report is.
C2_InvalidConfigStopsRun ==
    AnyViolated(cfg) =>
        /\ pc \in {"start", "done"}
        /\ parseCalls = 0
        /\ writes = <<>>
        /\ pc = "done" => IsValidationError(err, cfg)

\* C2 witness: an invalid Config with a malformed report has returned the
\* validation error.
C2_Witness ==
    /\ pc = "done"
    /\ cfg.Database = "" /\ cfg.HardwareID = "" /\ cfg.GoVersion # ""
    /\ \E i \in DOMAIN report : report[i].kind = "malformed"
    /\ err = ErrorsNew(<<"Database cannot be empty", "\n",
                         "Hardware ID cannot be empty">>)
    /\ parseCalls = 0 /\ writes = <<>>

\* C3: with a valid Config and a report the parser rejects, Run returns the
\* parser's error unchanged, never calls the write sink, and builds no batch
\* from the lines before the malformed one.
C3_ParseErrorStopsRun ==
    LET r == ParseMultipleBenchmarks(report)
    IN  (~AnyViolated(cfg) /\ r.err # Nil) =>
            /\ pc \in {"start", "parse", "done"}
            /\ writes = <<>>
            /\ bp = NoBatch
            /\ pc = "done" => (parseCalls = 1 /\ err = r.err)

\* C3 witness: a benchmark line, then a malformed line; Run has returned the
\* error for the malformed line and nothing was written.
C3_Witness ==
    /\ pc = "done"
    /\ ~AnyViolated(cfg)
    /\ Len(report) >= 2
    /\ report[1].kind = "bench" /\ report[2].kind = "malformed"
    /\ err = ParseError(2)
    /\ writes = <<>>

\* C4: with a valid Config and a report that parses, Run calls the write
\* sink exactly once, with the complete batch, and returns what the sink
\* returned: nil, or the sink's error as it is.  Nothing is written before
\* the batch is complete, and a report without benchmarks is written too.
C4_OneWriteResultPassedOn ==
    LET r == ParseMultipleBenchmarks(report)
    IN  (~AnyViolated(cfg) /\ r.err = Nil) =>
            /\ pc # "done" => writes = <<>>
            /\ pc = "done" =>
                  /\ Len(writes) = 1
                  /\ Len(writes[1].batch.Points) = TotalRecords(r.benchset)
                  /\ err = writes[1].result

\* C4 witness: the sink failed on a batch of two points and Run returned
\* that error after its one call.
C4_Witness ==
    /\ pc = "done"
    /\ Len(writes) = 1
    /\ Len(writes[1].batch.Points) = 2
    /\ writes[1].result = ErrorsNew(<<"write: timeout">>)
    /\ err = ErrorsNew(<<"write: timeout">>)

\* the tags a point is to carry for benchmark b of package p
WantedTags(p, b) == [pkg |-> p, ncpu |-> ToString(b.NumCPU), name |-> b.Name]

\* how many entries of sequence s satisfy Test
CountIn(s, Test(_)) == Cardinality({i \in DOMAIN s : Test(s[i])})

\* C6: the batch Run submits has exactly one point per benchmark of the
\* parsed mapping, each with measurement "benchmarks" and the tags pkg (the
\* package it is listed under), ncpu (the CPU count in decimal) and name;
\* the batch carries the Config's database, timestamp, goversion and hwid,
\* and precision "s".
C6_BatchContents ==
    Len(writes) >= 1 =>
        LET batch == writes[1].batch
            pts == batch.Points
        IN  /\ batch.Database = cfg.Database
            /\ batch.Time = cfg.Timestamp
            /\ batch.Precision = "s"
            /\ batch.Tags = [goversion |-> cfg.GoVersion, hwid |-> cfg.HardwareID]
            /\ Len(pts) = TotalRecords(benchset)
            /\ \A k \in DOMAIN pts :
                  /\ pts[k].Measurement = "benchmarks"
                  /\ pts[k].Tags.pkg \in DOMAIN benchset
            /\ \A p \in DOMAIN benchset : \A i \in DOMAIN benchset[p] :
                  LET b == benchset[p][i]
                      SameTags(pt) == pt.Tags = WantedTags(p, b)
                      SameKey(c) == c.NumCPU = b.NumCPU /\ c.Name = b.Name
                  IN  CountIn(pts, SameTags) = CountIn(benchset[p], SameKey)

\* C6 witness: two packages with one benchmark each gave two points, each
\* tagged with its own package.
C6_Witness ==
    /\ Len(writes) = 1
    /\ DOMAIN benchset = {"p", "q"}
    /\ Len(benchset["p"]) = 1 /\ Len(benchset["q"]) = 1
    /\ {writes[1].batch.Points[k].Tags.pkg : k \in 1..2} = {"p", "q"}
    /\ \E k \in 1..2 : writes[1].batch.Points[k].Tags.ncpu = "16"

\* the position of the first benchmark line of package p in the report
RECURSIVE PkgOfLine(_, _)
PkgOfLine(r, i) ==
    IF i = 0 THEN ""
    ELSE IF r[i].kind = "header" THEN r[i].pkg
    ELSE PkgOfLine(r, i - 1)

FirstLine(r, p) ==
    CHOOSE i \in DOMAIN r :
        /\ r[i].kind = "bench" /\ PkgOfLine(r, i) = p
        /\ \A j \in 1..(i - 1) : ~(r[j].kind = "bench" /\ PkgOfLine(r, j) = p)

\* C7: the points of the submitted batch follow the order in which the
\* packages appeared in the report, so that the batch is a function of the
\* report and the Config alone and the iteration order of the mapping does
\* not show: a point of a package that appeared later never precedes a
\* point of a package that appeared earlier.
C7_PackagesInSourceOrder ==
    Len(writes) >= 1 =>
        LET pts == writes[1].batch.Points
        IN  \A k, l \in DOMAIN pts :
                k < l => FirstLine(report, pts[k].Tags.pkg)
                            <= FirstLine(report, pts[l].Tags.pkg)

\* the positions of the points of package p in pts
PositionsOf(pts, p) == {k \in DOMAIN pts : pts[k].Tags.pkg = p}

\* C8: in whatever order the packages are visited, the points of one
\* package are contiguous in the submitted batch and are that package's
\* benchmarks in their parsed order, none skipped, doubled or moved.
C8_PackageBlocks ==
    Len(writes) >= 1 =>
        LET pts == writes[1].batch.Points
        IN  \A p \in DOMAIN benchset :
                LET pos == PositionsOf(pts, p)
                    bs == benchset[p]
                IN  /\ Cardinality(pos) = Len(bs)
                    /\ \A k, l \in pos : \A m \in k..l : m \in pos
                    /\ \A k \in pos :
                          LET i == Cardinality({l \in pos : l <= k})
                          IN  /\ pts[k].Tags.name = bs[i].Name
                              /\ pts[k].Tags.ncpu = ToString(bs[i].NumCPU)
                              /\ pts[k].Fields["n"] = bs[i].N

\* C8 witness: the package visited first appeared last in the report, and
\* the other package's two benchmarks follow it, together and in order.
C8_Witness ==
    /\ Len(writes) = 1
    /\ report = <<BenchLine(BenchFoo), BenchLine(BenchBar), HeaderLine("q"),
                  BenchLine(BenchFoo)>>
    /\ LET pts == writes[1].batch.Points
       IN  /\ Len(pts) = 3
           /\ pts[1].Tags = [pkg |-> "q", ncpu |-> "4", name |-> "Foo"]
           /\ pts[2].Tags = [pkg |-> "", ncpu |-> "4", name |-> "Foo"]
           /\ pts[3].Tags = [pkg |-> "", ncpu |-> "16", name |-> "Bar"]

=============================================================================
